---- MODULE Spec2Model ----
(***************************************************************************)
(* QuantumCyberSim: the order-finding factorization engine                 *)
(* (ShorAlgorithm.find_factors, shors_algorithm), the classical order      *)
(* finder (_classical_period_finding, find_period) and the phase           *)
(* estimation circuit builder (ShorAlgorithm.quantum_period_finding,       *)
(* quantum_phase_estimation), as state machines.                           *)
(*                                                                         *)
(* Three specifications share the variables:                               *)
(*   Spec         one factorization call, of either implementation         *)
(*   SpecOrder    one call of the order finder, iteration by iteration     *)
(*   SpecCircuit  one circuit construction, gate by gate                   *)
(***************************************************************************)
EXTENDS Integers, Sequences, FiniteSets, TLC

VARIABLES
    impl,          \* which function of the repository is running
    pc,            \* position in that function
    N,             \* the modulus (self.N / N)
    a,             \* the base (a)
    result,        \* what the call has returned or raised
    n_qubits,      \* self.n_qubits / n_aux
    max_attempts,  \* find_factors' parameter (5 in shors_algorithm)
    attempt,       \* the loop variable of the attempt loop
    g, r, x, factor1, factor2,   \* locals of the attempt loop
    draws,         \* history: number of calls of np.random.randint
    deadEnds,      \* history: number of attempts that ended without a factor
    outcome,       \* history: how the last attempt ended
    checks,        \* history: the checks performed so far
    precision,     \* the circuit builder's precision / n_count
    qc,            \* the QuantumCircuit under construction
    i, k           \* loop variables (i / q / counting_qubit / j, and k)

vars == <<impl, pc, N, a, result, n_qubits, max_attempts, attempt, g, r, x,
          factor1, factor2, draws, deadEnds, outcome, checks, precision, qc, i, k>>

(***************************************************************************)
(* Bounds of the model.                                                    *)
(***************************************************************************)
MaxN == 77          \* find_factors is run on every N up to MaxN
MaxNeg == 3         \* ... and down to -MaxNeg
MaxAttempts == 5    \* max_attempts ranges over 1..MaxAttempts
MaxDemoN == 16      \* shors_algorithm is run on every N up to MaxDemoN
MaxOrderN == 40     \* the order finder is run on every N in 2..MaxOrderN
MaxModulus == 15    \* circuits are built for every modulus in 2..MaxModulus
MaxBase == 3        \* ... every base in 2..MaxBase
MaxPrecision == 11  \* ... and every precision in 1..MaxPrecision

(***************************************************************************)
(* Program constants.                                                      *)
(***************************************************************************)
\* Python's None, for the integer-valued locals (all of which are >= 0
\* when set).
None == -1
\* range(5) in shors_algorithm
DemoAttempts == 5

(***************************************************************************)
(* Results of a call.                                                      *)
(***************************************************************************)
Running == [kind |-> "running", p |-> None, q |-> None, exc |-> ""]
\* return p, q
ReturnPair(p, q) == [kind |-> "pair", p |-> p, q |-> q, exc |-> ""]
\* return None, None
ReturnNone == [kind |-> "none", p |-> None, q |-> None, exc |-> ""]
\* an exception leaves the function
Raise(e) == [kind |-> "raise", p |-> None, q |-> None, exc |-> e]
\* return qc
ReturnCircuit == [kind |-> "circuit", p |-> None, q |-> None, exc |-> ""]

(***************************************************************************)
(* Arithmetic of the source.                                               *)
(***************************************************************************)
\* math.gcd
RECURSIVE gcd(_, _)
gcd(m, n) == IF n = 0 THEN (IF m < 0 THEN -m ELSE m) ELSE gcd(n, m % n)

\* the ** operator on Python's unbounded integers, e >= 0
RECURSIVE IntPow(_, _)
IntPow(b, e) == IF e = 0 THEN 1 ELSE b * IntPow(b, e - 1)

\* the three-argument pow(b, e, m), m >= 1, e >= 0: square and multiply
RECURSIVE pow(_, _, _)
pow(b, e, m) ==
    IF e = 0 THEN 1 % m
    ELSE IF e % 2 = 0 THEN pow((b * b) % m, e \div 2, m)
    ELSE (b * pow((b * b) % m, e \div 2, m)) % m

\* int(np.log2(n)) for n >= 1: the float logarithm of an integer below 2^31
\* lies strictly between the neighbouring integers unless n is a power of 2,
\* where it is exact, so the truncation is the exact floor
RECURSIVE FloorLog2(_)
FloorLog2(n) == IF n <= 1 THEN 0 ELSE 1 + FloorLog2(n \div 2)

\* A faulty variant of CeilLog2, which the properties resting on CeilLog2 must tell
\* apart: the logarithm truncated, not rounded up.
CeilLog2_truncated(n) == FloorLog2(n)

\* int(np.ceil(np.log2(n))) for n >= 1 (same remark)
RECURSIVE CeilLog2(_)
CeilLog2(n) == IF n <= 1 THEN 0 ELSE 1 + CeilLog2((n + 1) \div 2)

\* the exact floor of the b-th root of n, n >= 1, b >= 2
RECURSIVE RootSearch(_, _, _)
RootSearch(n, b, c) == IF IntPow(c + 1, b) > n THEN c ELSE RootSearch(n, b, c + 1)

\* The (n, b), n < 512, where the IEEE-754 double n ** (1/b) falls below the
\* exact integer root: 1/3 rounds below one third, and the cube root of every
\* cube from 4^3 on comes out as (root - epsilon). Cubes 8 and 27, and every
\* square, fourth, ... power below 512 come out exact.
PowRoundsBelow == {<<64, 3>>, <<125, 3>>, <<216, 3>>, <<343, 3>>}

\* int(N ** (1/b)): the truncated double
IntRoot(n, b) ==
    IF <<n, b>> \in PowRoundsBelow THEN RootSearch(n, b, 1) - 1
    ELSE RootSearch(n, b, 1)

\* A faulty variant of range, which the properties resting on range must tell
\* apart: one value short.
range_short(lo, hi) == lo..(hi - 2)

\* range(lo, hi)
range(lo, hi) == lo..(hi - 1)

\* for r in range(1, N): if pow(a, r, N) == 1: return r
\* return None
\* The first r of the range that passes the test, or None when none does.
first_period(b, n) ==
    LET hits == {rr \in range(1, n) : pow(b, rr, n) = 1} IN
    IF hits = {} THEN None
    ELSE CHOOSE rr \in hits : \A s \in hits : rr <= s

\* ShorAlgorithm._classical_period_finding
classical_period_finding(b, n) == first_period(b, n)

\* find_period of simple_shor_demo.py: the same loop
find_period(b, n) == first_period(b, n)

\* The perfect-power loop: the first b of range(2, int(np.log2(N)) + 1) with
\* int(N ** (1/b)) ** b == N, as <<a, b>>, or <<None, None>>. N >= 1.
RECURSIVE power_from(_, _)
power_from(n, b) ==
    IF b > FloorLog2(n) THEN <<None, None>>
    ELSE IF IntPow(IntRoot(n, b), b) = n THEN <<IntRoot(n, b), b>>
    ELSE power_from(n, b + 1)

perfect_power(n) == power_from(n, 2)


\* A faulty variant of randint, which the properties resting on randint must tell
\* apart: the draw starts at 1.
randint_from_one(low, high) == 1..(high - 1)

\* np.random.randint(low, high): the values it can return
randint(low, high) == low..(high - 1)

\* A faulty variant of attempt_range, which the properties resting on attempt_range must tell
\* apart: one attempt more.
attempt_range_extra(m) == 0..m

\* range(max_attempts)
attempt_range(m) == 0..(m - 1)

\* A faulty variant of is_even, which the properties resting on is_even must tell
\* apart: the even check never fires.
is_even_never(n) == FALSE

\* N % 2 == 0
is_even(n) == n % 2 = 0

\* A faulty variant of nontrivial, which the properties resting on nontrivial must tell
\* apart: 1 passes for a factor.
nontrivial_weak(f, n) == 1 <= f /\ f < n

\* 1 < factor < N
nontrivial(f, n) == 1 < f /\ f < n

(***************************************************************************)
(* Spec: one factorization call.                                           *)
(*   impl = "find_factors"     ShorAlgorithm(N).find_factors(max_attempts) *)
(*   impl = "shors_algorithm"  shors_algorithm(N)                          *)
(***************************************************************************)
Factorizers == {"find_factors", "shors_algorithm"}

\* An odd cube beyond MaxN, where int(N ** (1/3)) is one too small.
CubeInputs == {125}

NoCircuit == [num_qubits |-> 0, num_clbits |-> 0, data |-> <<>>]

Init ==
    /\ impl \in Factorizers
    /\ N \in (IF impl = "find_factors" THEN (0 - MaxNeg)..MaxN \cup CubeInputs
              ELSE (0 - MaxNeg)..MaxDemoN)
    /\ max_attempts \in (IF impl = "find_factors" THEN 1..MaxAttempts
                         ELSE {DemoAttempts})
    /\ pc = (IF impl = "find_factors" THEN "new" ELSE "even")
    /\ result = Running
    /\ n_qubits = None
    /\ attempt = None
    /\ a = None /\ g = None /\ r = None /\ x = None
    /\ factor1 = None /\ factor2 = None
    /\ draws = 0 /\ deadEnds = 0 /\ outcome = "" /\ checks = {}
    /\ precision = None /\ qc = NoCircuit /\ i = None /\ k = None

circuitVars == <<precision, qc, i, k>>
loopVars == <<attempt, a, g, r, x, factor1, factor2, draws, deadEnds, outcome>>

\* ShorAlgorithm.__init__: np.log2(0) is -inf and np.log2 of a negative
\* number is nan; int() of either raises.
ShorAlgorithm ==
    /\ impl = "find_factors" /\ pc = "new"
    /\ IF N = 0
       THEN /\ result' = Raise("OverflowError") /\ pc' = "done"
            /\ UNCHANGED n_qubits
       ELSE IF N < 0
       THEN /\ result' = Raise("ValueError") /\ pc' = "done"
            /\ UNCHANGED n_qubits
       ELSE /\ n_qubits' = CeilLog2(N) /\ pc' = "even"
            /\ UNCHANGED result
    /\ UNCHANGED <<impl, N, max_attempts, checks>>
    /\ UNCHANGED loopVars /\ UNCHANGED circuitVars

\* if N % 2 == 0: return 2, N // 2
EvenCheck ==
    /\ impl \in Factorizers /\ pc = "even"
    /\ checks' = checks \cup {"even"}
    /\ IF is_even(N)
       THEN /\ result' = ReturnPair(2, N \div 2) /\ pc' = "done"
       ELSE /\ pc' = "power" /\ UNCHANGED result
    /\ UNCHANGED <<impl, N, max_attempts, n_qubits>>
    /\ UNCHANGED loopVars /\ UNCHANGED circuitVars

\* for b in range(2, int(np.log2(N)) + 1): ...
\* find_factors returns (a, N // a); shors_algorithm returns (a, b).
\* int(np.log2(N)) raises ValueError (nan) when N < 0.
PerfectPowerCheck ==
    /\ impl \in Factorizers /\ pc = "power"
    /\ checks' = checks \cup {"power"}
    /\ IF N < 0
       THEN /\ result' = Raise("ValueError") /\ pc' = "done"
       ELSE LET ab == perfect_power(N) IN
            IF ab[1] # None
            THEN /\ result' = (IF impl = "find_factors"
                               THEN ReturnPair(ab[1], N \div ab[1])
                               ELSE ReturnPair(ab[1], ab[2]))
                 /\ pc' = "done"
            ELSE /\ pc' = "loop" /\ UNCHANGED result
    /\ UNCHANGED <<impl, N, max_attempts, n_qubits>>
    /\ UNCHANGED loopVars /\ UNCHANGED circuitVars

\* the index the loop header takes next from range(max_attempts)
NextIndex == IF attempt = None THEN 0 ELSE attempt + 1

\* The body of the attempt loop once the base b is drawn.
AttemptWith(b) ==
    LET gg == gcd(b, N)
        rr == IF impl = "find_factors" THEN classical_period_finding(b, N)
              ELSE find_period(b, N)
        \* find_factors: x = pow(a, r // 2, N); shors_algorithm has no x and
        \* takes the gcd of the unreduced a ** (r // 2) -+ 1
        xx == IF impl = "find_factors" THEN pow(b, rr \div 2, N)
              ELSE IntPow(b, rr \div 2)
        f1 == gcd(xx - 1, N)
        f2 == gcd(xx + 1, N)
    IN  /\ a' = b /\ g' = gg
        /\ IF gg > 1
           THEN /\ result' = ReturnPair(gg, N \div gg) /\ pc' = "done"
                /\ outcome' = "gcd"
                /\ UNCHANGED <<r, x, factor1, factor2, deadEnds>>
           ELSE IF rr = None
           THEN /\ r' = rr /\ outcome' = "not_found" /\ pc' = "continue"
                /\ deadEnds' = deadEnds + 1
                /\ UNCHANGED <<x, factor1, factor2, result>>
           ELSE IF rr % 2 # 0
           THEN /\ r' = rr /\ outcome' = "odd_order" /\ pc' = "continue"
                /\ deadEnds' = deadEnds + 1
                /\ UNCHANGED <<x, factor1, factor2, result>>
           ELSE /\ r' = rr /\ factor1' = f1 /\ factor2' = f2
                /\ x' = (IF impl = "find_factors" THEN xx ELSE x)
                /\ IF nontrivial(f1, N)
                   THEN /\ result' = ReturnPair(f1, N \div f1) /\ pc' = "done"
                        /\ outcome' = "factor1" /\ UNCHANGED deadEnds
                   ELSE IF nontrivial(f2, N)
                   THEN /\ result' = ReturnPair(f2, N \div f2) /\ pc' = "done"
                        /\ outcome' = "factor2" /\ UNCHANGED deadEnds
                   ELSE /\ outcome' = "trivial_root" /\ pc' = "continue"
                        /\ deadEnds' = deadEnds + 1 /\ UNCHANGED result

\* One iteration of `for attempt in range(max_attempts)`, from the draw of
\* the base to the return or to the end of the body.
\* np.random.randint(2, N) raises ValueError when N <= 2.
Attempt ==
    /\ impl \in Factorizers /\ pc = "loop"
    /\ NextIndex \in attempt_range(max_attempts)
    /\ attempt' = NextIndex
    /\ draws' = draws + 1
    /\ checks' = checks \cup {"draw"}
    /\ IF randint(2, N) = {}
       THEN /\ result' = Raise("ValueError") /\ pc' = "done"
            /\ outcome' = "raise"
            /\ UNCHANGED <<a, g, r, x, factor1, factor2, deadEnds>>
       ELSE \E b \in randint(2, N) : AttemptWith(b)
    /\ UNCHANGED <<impl, N, max_attempts, n_qubits>>
    /\ UNCHANGED circuitVars

\* `continue`, or the end of the loop body: back to the loop header. The
\* locals of the finished iteration are dead (each is assigned before it is
\* read again) and are dropped.
Continue ==
    /\ impl \in Factorizers /\ pc = "continue"
    /\ pc' = "loop"
    /\ a' = None /\ g' = None /\ r' = None /\ x' = None
    /\ factor1' = None /\ factor2' = None /\ outcome' = ""
    /\ UNCHANGED <<impl, N, max_attempts, n_qubits, result, attempt, draws,
                   deadEnds, checks>>
    /\ UNCHANGED circuitVars

\* the loop is exhausted: return None, None
ReturnFailure ==
    /\ impl \in Factorizers /\ pc = "loop"
    /\ NextIndex \notin attempt_range(max_attempts)
    /\ result' = ReturnNone /\ pc' = "done"
    /\ UNCHANGED <<impl, N, max_attempts, n_qubits, checks>>
    /\ UNCHANGED loopVars /\ UNCHANGED circuitVars

Next ==
    \/ ShorAlgorithm
    \/ EvenCheck
    \/ PerfectPowerCheck
    \/ Attempt
    \/ Continue
    \/ ReturnFailure

Spec == Init /\ [][Next]_vars


(***************************************************************************)
(* Properties of the factorization call (checked under Spec).              *)
(***************************************************************************)
Done == pc = "done"

\* the attempt in progress got as far as calling the order finder
OrderFinderInvoked ==
    outcome \in {"not_found", "odd_order", "factor1", "factor2", "trivial_root"}

\* the attempt in progress reached the even-order step
EvenOrderStep == outcome \in {"factor1", "factor2", "trivial_root"}

\* n = c^e for some e >= 1
RECURSIVE IsPowerOf(_, _)
IsPowerOf(n, c) == n = c \/ (n > c /\ n % c = 0 /\ IsPowerOf(n \div c, c))

\* the integers c >= 2 with n = c^e for some e >= 2
PowerBases(n) == {c \in 2..(n - 1) : IsPowerOf(n, c)}

\* C1: whenever find_factors, for N >= 2, returns a pair (p, q), then
\* p*q = N, 1 < p < N and 1 < q < N.
C1_ReturnedPairIsFactorPair ==
    (impl = "find_factors" /\ N >= 2 /\ result.kind = "pair") =>
        /\ result.p * result.q = N
        /\ 1 < result.p /\ result.p < N
        /\ 1 < result.q /\ result.q < N

\* C2: for a perfect power N = c^e (c >= 2, e >= 2) either implementation
\* returns (c, N/c) for such a c, without drawing a random base. Stated for
\* odd N: an even N is returned by the even check, before the perfect-power
\* check is reached.
C2_PerfectPowerReturned ==
    (impl \in Factorizers /\ Done /\ N >= 2 /\ N % 2 = 1 /\ PowerBases(N) # {}) =>
        /\ draws = 0
        /\ result.kind = "pair"
        /\ result.p \in PowerBases(N)
        /\ result.q = N \div result.p

\* test_cases of demonstrate_rsa_breaking, and the factors the specification
\* expects for each
DemoModuli == {15, 21, 35, 77}
ExpectedFactors(n) ==
    CASE n = 15 -> {3, 5} [] n = 21 -> {3, 7} [] n = 35 -> {5, 7} [] n = 77 -> {7, 11}
\* max_attempts=5 in demonstrate_rsa_breaking
RsaDemoAttempts == 5

DemoCall == impl = "find_factors" /\ N \in DemoModuli /\ max_attempts = RsaDemoAttempts

\* C3 as stated: for N in {15, 21, 35, 77}, find_factors(5) never returns
\* Failure, whatever bases are drawn, and returns the expected factors.
C3_DemoAlwaysSucceeds ==
    (DemoCall /\ Done) =>
        /\ result.kind = "pair"
        /\ {result.p, result.q} = ExpectedFactors(N)

\* C3 amended: for N in {15, 21, 35, 77}, find_factors(5) returns either the
\* expected factors or Failure, and Failure only after five bases were drawn
\* that each were a dead end.
C3_DemoFactorsOrExhausted ==
    (DemoCall /\ Done) =>
        \/ /\ result.kind = "pair"
           /\ {result.p, result.q} = ExpectedFactors(N)
        \/ /\ result.kind = "none"
           /\ draws = RsaDemoAttempts /\ deadEnds = RsaDemoAttempts

\* C3 witness: N = 77 is factored by the order-based path in the fifth
\* attempt, after four dead ends.
C3_Witness ==
    /\ DemoCall /\ Done /\ N = 77 /\ result.kind = "pair"
    /\ outcome = "factor1" /\ deadEnds = 4

\* C5: for N < 2 the request ends in an error before any computation: no
\* even check, no perfect-power check, no draw, and nothing is returned.
C5_InvalidInputRejected ==
    (impl \in Factorizers /\ N < 2) =>
        /\ checks = {} /\ draws = 0
        /\ result.kind \in {"running", "raise"}
        /\ (Done => result.kind = "raise")

\* An upper bound on the steps the call has left.
StepsLeft ==
    CASE pc = "done" -> 0
      [] pc = "new" -> 2 * max_attempts + 4
      [] pc = "even" -> 2 * max_attempts + 3
      [] pc = "power" -> 2 * max_attempts + 2
      [] pc = "loop" -> 2 * (max_attempts - draws) + 1
      [] pc = "continue" -> 2 * (max_attempts - draws) + 2

\* The call can take a step: one of the deterministic steps is enabled, or
\* the loop header has an index left (the loop body then runs whatever base
\* is drawn).
CanStep ==
    \/ ENABLED (ShorAlgorithm \/ EvenCheck \/ PerfectPowerCheck \/ Continue
                \/ ReturnFailure)
    \/ (pc = "loop" /\ NextIndex \in attempt_range(max_attempts))

C6_AttemptsInv ==
    (impl \in Factorizers /\ N >= 2) =>
        /\ draws <= max_attempts /\ deadEnds <= draws
        /\ (result.kind = "none" =>
                Done /\ draws = max_attempts /\ deadEnds = max_attempts)
        /\ (outcome \in {"gcd", "factor1", "factor2"} =>
                Done /\ result.kind = "pair" /\ draws = deadEnds + 1)
        /\ (Done => result.kind \in {"pair", "none"})
        /\ (~Done => CanStep)
        /\ StepsLeft >= 0

\* C6: for N >= 2 the call draws at most max_attempts bases and ends by
\* returning: it is never stuck before it is over and every step lowers the
\* bound on the steps left. It returns Failure only after exactly
\* max_attempts attempts that each were a dead end, and an attempt that
\* yields a factor ends the call at once (the call is over, one more base
\* drawn than dead ends met, and no step is left that could draw another).
C6_BoundedAttempts ==
    /\ []C6_AttemptsInv
    /\ [][StepsLeft' < StepsLeft]_vars

\* C6 witness: Failure after three dead ends of three.
C6_Witness ==
    /\ impl = "find_factors" /\ N >= 2 /\ Done /\ result.kind = "none"
    /\ max_attempts = 3 /\ draws = 3 /\ deadEnds = 3

\* C9: the order finder is only called with a base a, 2 <= a <= N-1, that is
\* coprime to N, and never returns None there: no attempt ends "period not
\* found".
C9_OrderFinderNeverFails ==
    (impl \in Factorizers /\ N >= 2) =>
        /\ outcome # "not_found"
        /\ (OrderFinderInvoked =>
                /\ 2 <= a /\ a <= N - 1
                /\ gcd(a, N) = 1
                /\ r # None /\ r >= 1)

\* C9 witness: an attempt of find_factors in which the order finder ran.
C9_Witness ==
    /\ impl = "find_factors" /\ N >= 2 /\ OrderFinderInvoked
    /\ outcome = "odd_order" /\ r = 3

\* C10: in an attempt that reaches the even-order step, with
\* x = a^(r/2) mod N: x is never 1, factor1 = gcd(x-1, N) < N, the attempt is
\* a dead end exactly when x = N-1, and then factor1 = 1 and factor2 = N; the
\* factor2 branch is never taken, every success there returns
\* (factor1, N/factor1).
C10_EvenOrderStep ==
    (impl \in Factorizers /\ N >= 2 /\ EvenOrderStep) =>
        LET xm == pow(a, r \div 2, N) IN
        /\ N % 2 = 1 /\ gcd(a, N) = 1 /\ r % 2 = 0
        /\ (impl = "find_factors" => x = xm)
        /\ xm # 1
        /\ factor1 = gcd(xm - 1, N) /\ factor2 = gcd(xm + 1, N)
        /\ factor1 < N
        /\ (outcome = "trivial_root" <=> xm = N - 1)
        /\ (xm = N - 1 => factor1 = 1 /\ factor2 = N)
        /\ outcome # "factor2"
        /\ (outcome = "factor1" => result = ReturnPair(factor1, N \div factor1))

\* C10 witness: a dead end with x = N-1 in shors_algorithm.
C10_Witness ==
    /\ impl = "shors_algorithm" /\ N >= 2 /\ outcome = "trivial_root"
    /\ pow(a, r \div 2, N) = N - 1 /\ factor1 = 1 /\ factor2 = N


(***************************************************************************)
(* SpecOrder: one call of the order finder, one loop iteration per step.   *)
(*   impl = "_classical_period_finding"  ShorAlgorithm(N)._classical_...(a)*)
(*   impl = "find_period"                find_period(a, N)                 *)
(* The two functions are the same loop. r is the loop variable.            *)
(***************************************************************************)
OrderFinders == {"_classical_period_finding", "find_period"}

\* return r / return None
ReturnOrder(v) == [kind |-> "order", p |-> v, q |-> None, exc |-> ""]

InitOrder ==
    /\ impl \in OrderFinders
    /\ N \in 2..MaxOrderN
    /\ a \in 1..(N - 1)
    /\ pc = "search"
    /\ r = None
    /\ result = Running
    /\ n_qubits = None /\ max_attempts = None /\ attempt = None
    /\ g = None /\ x = None /\ factor1 = None /\ factor2 = None
    /\ draws = 0 /\ deadEnds = 0 /\ outcome = "" /\ checks = {}
    /\ precision = None /\ qc = NoCircuit /\ i = None /\ k = None

\* the value the loop header takes next from range(1, N)
NextR == IF r = None THEN 1 ELSE r + 1

\* one iteration: if pow(a, r, N) == 1: return r
PeriodStep ==
    /\ impl \in OrderFinders /\ pc = "search"
    /\ NextR \in range(1, N)
    /\ r' = NextR
    /\ IF pow(a, NextR, N) = 1
       THEN result' = ReturnOrder(NextR) /\ pc' = "done"
       ELSE UNCHANGED <<result, pc>>
    /\ UNCHANGED <<impl, N, a, n_qubits, max_attempts, attempt, g, x, factor1,
                   factor2, draws, deadEnds, outcome, checks>>
    /\ UNCHANGED circuitVars

\* the range is exhausted: return None
PeriodNotFound ==
    /\ impl \in OrderFinders /\ pc = "search"
    /\ NextR \notin range(1, N)
    /\ result' = ReturnOrder(None) /\ pc' = "done"
    /\ UNCHANGED <<impl, N, a, r, n_qubits, max_attempts, attempt, g, x,
                   factor1, factor2, draws, deadEnds, outcome, checks>>
    /\ UNCHANGED circuitVars

NextOrder ==
    \/ PeriodStep
    \/ PeriodNotFound

SpecOrder == InitOrder /\ [][NextOrder]_vars

\* b^e mod m by e multiplications
RECURSIVE NaiveModPow(_, _, _)
NaiveModPow(b, e, m) == IF e = 0 THEN 1 % m ELSE (NaiveModPow(b, e - 1, m) * b) % m

\* The loop, step by step, returns what the operator used in the factorization
\* call computes.
OrderModelsAgree ==
    (impl \in OrderFinders /\ Done) =>
        /\ result.p = classical_period_finding(a, N)
        /\ result.p = find_period(a, N)

\* iterations the search has left, at most
SearchLeft == IF Done THEN 0 ELSE N - NextR + 1

C4_OrderInv ==
    (impl \in OrderFinders /\ gcd(a, N) = 1) =>
        /\ (r # None => 1 <= r /\ r <= N - 1)
        /\ (~Done => ENABLED NextOrder)
        /\ SearchLeft >= 0
        /\ (Done =>
              /\ result.kind = "order"
              /\ result.p # None /\ result.p >= 1
              /\ NaiveModPow(a, result.p, N) = 1
              /\ \A s \in 1..(result.p - 1) : NaiveModPow(a, s, N) # 1)

\* C4: for N >= 2 and 1 <= a < N coprime to N the order finder terminates
\* (it is never stuck and every iteration lowers the number of iterations
\* left) and returns, never None, the smallest r >= 1 with a^r mod N = 1.
C4_OrderIsLeastPeriod ==
    /\ []C4_OrderInv
    /\ [][SearchLeft' < SearchLeft]_vars

\* C4 witness: a primitive root of a prime, found in the last iteration of
\* the range.
C4_Witness ==
    /\ impl \in OrderFinders /\ Done /\ gcd(a, N) = 1
    /\ N = 37 /\ result.p = N - 1


(***************************************************************************)
(* SpecCircuit: one construction of the phase estimation circuit, one gate *)
(* per step.                                                               *)
(*   impl = "quantum_period_finding"                                       *)
(*            ShorAlgorithm(N).quantum_period_finding(a, precision)        *)
(*   impl = "quantum_phase_estimation"                                     *)
(*            quantum_phase_estimation(a, N, precision)                    *)
(* i is the index the running loop takes next (i, q, counting_qubit or j   *)
(* in the source), k that of the inner loop of the inverse transform.      *)
(* An angle is kept as the integers of its expression:                     *)
(*   <<2, m, N>>     2*pi*m/N, m = a^(2^q) mod N    (quantum_period_finding)*)
(*   <<2, a, e, N>>  2*pi*(a^e)/N, not reduced   (quantum_phase_estimation)*)
(*   <<-1, 1, d>>    -pi/d                                                 *)
(***************************************************************************)
Builders == {"quantum_period_finding", "quantum_phase_estimation"}

\* QuantumCircuit(n, m)
QuantumCircuit(nq, nc) == [num_qubits |-> nq, num_clbits |-> nc, data |-> <<>>]

\* an instruction of the circuit
Gate(nm, qs, cs, ps) == [name |-> nm, qubits |-> qs, clbits |-> cs, params |-> ps]

\* qc.h(..), qc.x(..), qc.cp(..), ...: the instruction is appended
append(c, op) == [c EXCEPT !.data = Append(@, op)]

\* float(m) overflows for m = b^(2^j), b >= 2: m >= 2^1024, that is
\* b >= 2^(2^(10-j)). With b < 2^31 this needs j >= 6.
int_too_large_for_float(b, j) ==
    /\ b >= 2
    /\ \/ j >= 10
       \/ (j >= 6 /\ b >= IntPow(2, IntPow(2, 10 - j)))

InitCircuit ==
    /\ impl \in Builders
    /\ a \in 2..MaxBase
    /\ N \in 2..MaxModulus
    /\ precision \in (IF impl = "quantum_period_finding"
                      THEN 1..MaxPrecision \cup {None}
                      ELSE 1..MaxPrecision)
    /\ pc = "new"
    /\ qc = NoCircuit /\ i = None /\ k = None
    /\ result = Running
    /\ n_qubits = None /\ max_attempts = None /\ attempt = None
    /\ g = None /\ r = None /\ x = None /\ factor1 = None /\ factor2 = None
    /\ draws = 0 /\ deadEnds = 0 /\ outcome = "" /\ checks = {}

factorVars == <<max_attempts, attempt, g, r, x, factor1, factor2, draws,
                deadEnds, outcome, checks>>

\* self.n_qubits = int(np.ceil(np.log2(N))) / n_aux = ...;
\* precision defaults to 2 * self.n_qubits + 1 in quantum_period_finding;
\* qc = QuantumCircuit(precision + n_qubits, precision)
NewCircuit ==
    /\ impl \in Builders /\ pc = "new"
    /\ n_qubits' = CeilLog2(N)
    /\ precision' = (IF precision = None THEN 2 * CeilLog2(N) + 1 ELSE precision)
    /\ qc' = QuantumCircuit(precision' + n_qubits', precision')
    /\ pc' = "h" /\ i' = 0
    /\ UNCHANGED <<impl, N, a, result, k>> /\ UNCHANGED factorVars

\* for i in range(precision): qc.h(i)
Superpose ==
    /\ impl \in Builders /\ pc = "h"
    /\ i \in range(0, precision)
    /\ qc' = append(qc, Gate("h", <<i>>, <<>>, <<>>))
    /\ IF i + 1 \in range(0, precision)
       THEN i' = i + 1 /\ pc' = "h"
       ELSE i' = None /\ pc' = "x"
    /\ UNCHANGED <<impl, N, a, result, n_qubits, precision, k>>
    /\ UNCHANGED factorVars

\* qc.x(precision): the first auxiliary position; an index outside the
\* circuit raises CircuitError
PrepareOne ==
    /\ impl \in Builders /\ pc = "x"
    /\ IF precision < qc.num_qubits
       THEN /\ qc' = append(qc, Gate("x", <<precision>>, <<>>, <<>>))
            /\ pc' = "cp" /\ i' = 0 /\ UNCHANGED result
       ELSE /\ result' = Raise("CircuitError") /\ pc' = "done"
            /\ UNCHANGED <<qc, i>>
    /\ UNCHANGED <<impl, N, a, n_qubits, precision, k>>
    /\ UNCHANGED factorVars

\* the loop that follows the conditional-phase loop: the swaps of the
\* inverse transform, if range(n // 2) is not empty
AfterPhases == IF range(0, precision \div 2) # {} THEN "swap" ELSE "iqft_h"

\* ShorAlgorithm._controlled_modular_exponentiation(qc, control, a, power):
\* the circuit after the call
controlled_modular_exponentiation(c, control, b, power) ==
    LET m == pow(b, power, N)        \* a ** power % self.N
        len == c.num_qubits          \* len(qc.qubits)
        target == len - n_qubits
    IN  IF n_qubits + len > control + 1
        THEN IF target > control
             THEN append(c, Gate("cp", <<control, target>>, <<>>, <<2, m, N>>))
             ELSE c
        ELSE c

\* One iteration of the conditional-phase loop.
\* quantum_period_finding: power = 2 ** q, then the call above.
\* quantum_phase_estimation: angle = 2 * np.pi * (a ** (2 ** j)) / N, where
\* the product of a float and an integer of 2^1024 or more raises
\* OverflowError; then qc.cp(angle, j, n_count).
ControlledPower ==
    /\ impl \in Builders /\ pc = "cp"
    /\ i \in range(0, precision)
    /\ IF impl = "quantum_phase_estimation" /\ int_too_large_for_float(a, i)
       THEN /\ result' = Raise("OverflowError") /\ pc' = "done"
            /\ UNCHANGED <<qc, i>>
       ELSE /\ qc' = (IF impl = "quantum_period_finding"
                      THEN controlled_modular_exponentiation(qc, i, a, IntPow(2, i))
                      ELSE append(qc, Gate("cp", <<i, precision>>, <<>>,
                                           <<2, a, IntPow(2, i), N>>)))
            /\ IF i + 1 \in range(0, precision)
               THEN i' = i + 1 /\ pc' = "cp"
               ELSE i' = 0 /\ pc' = AfterPhases
            /\ UNCHANGED result
    /\ UNCHANGED <<impl, N, a, n_qubits, precision, k>>
    /\ UNCHANGED factorVars

\* for i in range(n // 2): qc.swap(i, n - i - 1)
Swap ==
    /\ impl \in Builders /\ pc = "swap"
    /\ i \in range(0, precision \div 2)
    /\ qc' = append(qc, Gate("swap", <<i, precision - i - 1>>, <<>>, <<>>))
    /\ IF i + 1 \in range(0, precision \div 2)
       THEN i' = i + 1 /\ pc' = "swap"
       ELSE i' = 0 /\ pc' = "iqft_h"
    /\ UNCHANGED <<impl, N, a, result, n_qubits, precision, k>>
    /\ UNCHANGED factorVars

\* for j in range(n): qc.h(j), then the inner loop over range(j)
InverseH ==
    /\ impl \in Builders /\ pc = "iqft_h"
    /\ i \in range(0, precision)
    /\ qc' = append(qc, Gate("h", <<i>>, <<>>, <<>>))
    /\ IF range(0, i) # {}
       THEN i' = i /\ k' = 0 /\ pc' = "iqft_cp"
       ELSE IF i + 1 \in range(0, precision)
       THEN i' = i + 1 /\ k' = k /\ pc' = "iqft_h"
       ELSE i' = 0 /\ k' = k /\ pc' = "measure"
    /\ UNCHANGED <<impl, N, a, result, n_qubits, precision>>
    /\ UNCHANGED factorVars

\* for k in range(j): qc.cp(-np.pi / (2 ** (j - k)), k, j)
InversePhase ==
    /\ impl \in Builders /\ pc = "iqft_cp"
    /\ k \in range(0, i)
    /\ qc' = append(qc, Gate("cp", <<k, i>>, <<>>, <<-1, 1, IntPow(2, i - k)>>))
    /\ IF k + 1 \in range(0, i)
       THEN i' = i /\ k' = k + 1 /\ pc' = "iqft_cp"
       ELSE IF i + 1 \in range(0, precision)
       THEN i' = i + 1 /\ k' = k /\ pc' = "iqft_h"
       ELSE i' = 0 /\ k' = k /\ pc' = "measure"
    /\ UNCHANGED <<impl, N, a, result, n_qubits, precision>>
    /\ UNCHANGED factorVars

\* for i in range(precision): qc.measure(i, i)
Measure ==
    /\ impl \in Builders /\ pc = "measure"
    /\ i \in range(0, precision)
    /\ qc' = append(qc, Gate("measure", <<i>>, <<i>>, <<>>))
    /\ IF i + 1 \in range(0, precision)
       THEN i' = i + 1 /\ pc' = "measure"
       ELSE i' = i /\ pc' = "return"
    /\ UNCHANGED <<impl, N, a, result, n_qubits, precision, k>>
    /\ UNCHANGED factorVars

\* return qc
Return ==
    /\ impl \in Builders /\ pc = "return"
    /\ result' = ReturnCircuit /\ pc' = "done"
    /\ UNCHANGED <<impl, N, a, n_qubits, precision, qc, i, k>>
    /\ UNCHANGED factorVars

NextCircuit ==
    \/ NewCircuit
    \/ Superpose
    \/ PrepareOne
    \/ ControlledPower
    \/ Swap
    \/ InverseH
    \/ InversePhase
    \/ Measure
    \/ Return

SpecCircuit == InitCircuit /\ [][NextCircuit]_vars


(***************************************************************************)
(* Properties of the circuit construction (checked under SpecCircuit).     *)
(***************************************************************************)
\* n = ceil(log2(m)), m >= 1, stated by powers of two
IsCeilLog2(n, m) ==
    /\ n >= 0
    /\ IntPow(2, n) >= m
    /\ (n = 0 \/ IntPow(2, n - 1) < m)

Shape(op) == <<op.name, op.qubits, op.clbits>>

\* The sequence C8 describes, for precision n, section by section.
ExpectedSuperposition(n) == [j \in 1..n |-> <<"h", <<j - 1>>, <<>>>>]
ExpectedPhases(n) == [j \in 1..n |-> <<"cp", <<j - 1, n>>, <<>>>>]
ExpectedSwaps(n) == [j \in 1..(n \div 2) |-> <<"swap", <<j - 1, n - j>>, <<>>>>]
\* a superposition gate on j, then a conditional phase (kk, j) for kk < j
ExpectedBlock(j) ==
    <<  <<"h", <<j>>, <<>>>>  >> \o [kk \in 1..j |-> <<"cp", <<kk - 1, j>>, <<>>>>]
RECURSIVE ExpectedBlocks(_)
ExpectedBlocks(n) ==
    IF n = 0 THEN <<>> ELSE ExpectedBlocks(n - 1) \o ExpectedBlock(n - 1)
ExpectedMeasures(n) == [j \in 1..n |-> <<"measure", <<j - 1>>, <<j - 1>>>>]

ExpectedShapes(n) ==
    ExpectedSuperposition(n) \o <<  <<"x", <<n>>, <<>>>>  >> \o ExpectedPhases(n)
        \o ExpectedSwaps(n) \o ExpectedBlocks(n) \o ExpectedMeasures(n)

\* 4p + 1 + floor(p/2) + p(p-1)/2
ExpectedLength(n) == 4 * n + 1 + (n \div 2) + ((n * (n - 1)) \div 2)

IsExpectedCircuit ==
    /\ Len(qc.data) = ExpectedLength(precision)
    /\ [j \in 1..Len(qc.data) |-> Shape(qc.data[j])] = ExpectedShapes(precision)

\* C8: for every modulus >= 2 and precision p >= 1 either builder ends by
\* returning the circuit whose gate sequence is exactly the described one, of
\* 4p + 1 + floor(p/2) + p(p-1)/2 operations.
C8_GateSequence ==
    (impl \in Builders /\ Done) =>
        /\ result.kind = "circuit"
        /\ IsExpectedCircuit

\* The same for ShorAlgorithm.quantum_period_finding alone, where it holds:
\* none of the guards of _controlled_modular_exponentiation skips a gate.
PeriodFindingGateSequence ==
    (impl = "quantum_period_finding" /\ Done) =>
        /\ result.kind = "circuit"
        /\ IsExpectedCircuit

\* ... and for quantum_phase_estimation whenever it returns.
PhaseEstimationGateSequence ==
    (impl = "quantum_phase_estimation" /\ result.kind = "circuit") =>
        IsExpectedCircuit

====
